---- MODULE Spec2Model ----
(***************************************************************************)
(* Model of ShenandoahAsserts (shenandoahAsserts.cpp): the assert_* checks *)
(* of the Shenandoah heap and the failure reporter print_failure.          *)
(*                                                                         *)
(* One behaviour is one invocation of one entry point against a heap       *)
(* snapshot.  The snapshot and the arguments of the invocation are drawn   *)
(* in Init; the actions are the steps of the invoked code, one step per    *)
(* read of shared heap memory, so that a concurrent rewrite of a           *)
(* forwarding word (action Mutate, specification SpecConc) can fall        *)
(* between any two reads.                                                  *)
(***************************************************************************)
EXTENDS Integers, FiniteSets, Sequences, TLC

\* ------------------------------------------------------------------------
\* Bounds of the model
\* ------------------------------------------------------------------------
NumRegions == 3         \* regions in the heap's region table
RegionSizeWords == 2    \* heap words per region
MaxObjWords == 5        \* largest obj->size() a snapshot reports
MaxMutations == 1       \* concurrent rewrites of a forwarding word during one check

\* ------------------------------------------------------------------------
\* Program constants
\* ------------------------------------------------------------------------
NULL == 0
HeapWordSize == 8
\* SafeLevel, lowest to highest
_safe_unknown == 0
_safe_oop == 1
_safe_oop_fwd == 2
_safe_all == 3

\* a local variable that was not assigned yet
Unset == 0 - 1

\* ------------------------------------------------------------------------
\* Address space: NULL, the heap words, one address above the heap
\* ------------------------------------------------------------------------
HeapAddr == 1..(NumRegions * RegionSizeWords)
OutsideAddr == NumRegions * RegionSizeWords + 1
Addr == NULL..OutsideAddr
Regions == 0..(NumRegions - 1)
RootAddr == CHOOSE a \in HeapAddr : \A b \in HeapAddr : a <= b
LastAddr == CHOOSE a \in HeapAddr : \A b \in HeapAddr : b <= a

RegionStates == {"empty", "regular", "humongous_start", "humongous_cont"}
SafeLevels == {_safe_unknown, _safe_oop, _safe_oop_fwd, _safe_all}

VARIABLES
  \* ---- heap snapshot (owned by the collector, only read here)
  fwdw,                 \* Brooks forwarding word of every heap address
  full_gc_move,         \* heap->is_full_gc_move_in_progress()
  regState,             \* state of every region of the region table
  objWords,             \* obj->size() of the object at every heap address
  marked_complete,      \* complete mark bitmap
  marked_next,          \* next mark bitmap
  cset,                 \* regions in the collection set
  UseShenandoahMatrix,  \* the flag
  \* ---- the invocation
  kind,                 \* which entry point was called
  obj,                  \* its oop argument
  interior_loc,         \* its interior_loc argument
  pc,                   \* position of the calling thread
  L,                    \* local variables of the assert_* frame
  pf,                   \* parameters of the print_failure frame
  P,                    \* local variables of the print_failure frame
  report,               \* the message buffer, section by section
  \* ---- bookkeeping of the memory the invocation touched
  wordReads,            \* addresses whose forwarding word was read
  regionGets,           \* indices passed to heap->regions()->get()
  mutations             \* rewrites of the forwarding word made meanwhile

heapVars == <<full_gc_move, regState, objWords, marked_complete, marked_next,
              cset, UseShenandoahMatrix>>
argVars == <<kind, obj, interior_loc, mutations>>
vars == <<fwdw, heapVars, argVars, pc, L, pf, P, report, wordReads, regionGets>>

\* ------------------------------------------------------------------------
\* HeapModel / Region / BrooksPointer queries
\* ------------------------------------------------------------------------
is_in(a) == a \in HeapAddr

heap_region_index_containing(a) == (a - 1) \div RegionSizeWords

in_collection_set(a) == is_in(a) /\ heap_region_index_containing(a) \in cset

is_active(st) == st # "empty"
is_humongous_start(st) == st = "humongous_start"
is_humongous_continuation(st) == st = "humongous_cont"

BrooksWordSize == 1
humongous_threshold_words == RegionSizeWords
RegionSizeBytes == RegionSizeWords * HeapWordSize
required_regions(bytes) == (bytes + RegionSizeBytes - 1) \div RegionSizeBytes

\* BrooksPointer::get_raw_unchecked(a): the word as stored.  Reading it for
\* an address outside the heap is a wild read: any value may come back, or
\* the thread faults.
get_raw_unchecked(a) == IF is_in(a) THEN {fwdw[a]} ELSE Addr
MayFault(a) == IF is_in(a) THEN {FALSE} ELSE BOOLEAN

\* heap->regions()->get(i): no bounds check; an index past the table reads
\* whatever lies there, or faults.
regions_get(i) == IF i \in Regions THEN {regState[i]} ELSE RegionStates
GetMayFault(i) == IF i \in Regions THEN {FALSE} ELSE BOOLEAN

unsafe_equals(a, b) == a = b

\* ------------------------------------------------------------------------
\* Renderers.  A section of the report is recorded by how it was rendered:
\* "full" dereferences the object's klass and mark state (print_obj),
\* the others touch no object memory.
\* ------------------------------------------------------------------------
print_obj(o) == "full"

print_non_obj(loc) == IF is_in(loc) THEN "inside_heap" ELSE "outside_heap"

print_obj_safe(loc) == IF is_in(loc) THEN "safe_region" ELSE "safe"

EmptyReport ==
  [phase |-> "", label |-> "", level |-> Unset,
   referenced |-> "none", object |-> "none", forwardee |-> "absent",
   second |-> FALSE, matrix |-> FALSE, matrix_interior |-> FALSE]

NoFrame == [level |-> Unset, loc |-> NULL, phase |-> "", label |-> ""]

NoLocals == [fwd |-> Unset, fwd2 |-> Unset, own_fwd |-> Unset,
             idx |-> Unset, num_regions |-> Unset, i |-> Unset]

NoPLocals == [fwd |-> Unset, fwd_b |-> Unset, fwd2 |-> Unset,
              fwd_to |-> Unset, fwd_from |-> Unset]

\* ------------------------------------------------------------------------
\* print_failure
\* ------------------------------------------------------------------------
\* the call: the frame is set up, the caller never continues
print_failure(level, loc, phase, label) ==
  /\ pf' = [level |-> level, loc |-> loc, phase |-> phase, label |-> label]
  /\ pc' = "pf_head"

loc_in_heap(loc) == loc # NULL /\ is_in(loc)

interior_loc_in_heap(il) == il # NULL /\ is_in(il)

\* mutant: the object-detail block is chosen by the interior location
referenced_section_by_interior(il, loc) ==
  IF il # NULL
    THEN IF interior_loc_in_heap(il) THEN print_obj(loc) ELSE print_non_obj(il)
    ELSE "no_interior"

\* section "Referenced from"
referenced_section(il, loc) ==
  IF il # NULL
    THEN IF loc_in_heap(loc) THEN print_obj(loc) ELSE print_non_obj(il)
    ELSE "no_interior"

\* mutant: the object is rendered in full at every level
object_section_ungated(level, o) == print_obj(o)

\* section "Object"
object_section(level, o) ==
  IF level >= _safe_oop THEN print_obj(o) ELSE print_obj_safe(o)

\* section "Forwardee", fwd being the word just read
forwardee_section(level, o, fwd) ==
  IF ~unsafe_equals(o, fwd)
    THEN IF level >= _safe_oop_fwd THEN print_obj(fwd) ELSE print_obj_safe(fwd)
    ELSE "itself"

\* mutant: the level test is >= _safe_oop_fwd
matrix_shown_low_level(level, loc) ==
  loc_in_heap(loc) /\ UseShenandoahMatrix /\ level >= _safe_oop_fwd

\* the guard of section "Matrix connections"
matrix_shown(level, loc) ==
  loc_in_heap(loc) /\ UseShenandoahMatrix /\ level = _safe_all

\* an object rendered by print_obj that does not lie in the heap is a wild
\* dereference
RenderMayFault(rendering, o) == IF rendering = "full" THEN MayFault(o) ELSE {FALSE}

Crash ==
  /\ pc' = "crashed"
  /\ UNCHANGED <<P, report, wordReads>>

PF_Head ==
  /\ pc = "pf_head"
  /\ LET ref == referenced_section(interior_loc, pf.loc)
         ob == object_section(pf.level, obj)
     IN \E fault \in RenderMayFault(ob, obj) :
          IF fault
            THEN Crash
            ELSE /\ report' = [report EXCEPT !.phase = pf.phase,
                                             !.label = pf.label,
                                             !.level = pf.level,
                                             !.referenced = ref,
                                             !.object = ob]
                 /\ pc' = "pf_fwd"
                 /\ UNCHANGED <<P, wordReads>>
  /\ UNCHANGED <<fwdw, heapVars, argVars, L, pf, regionGets>>

PF_Forwardee ==
  /\ pc = "pf_fwd"
  /\ IF pf.level >= _safe_oop
       THEN \E fwd \in get_raw_unchecked(obj) :
              LET sec == forwardee_section(pf.level, obj, fwd)
              IN \E fault \in MayFault(obj) \cup RenderMayFault(sec, fwd) :
                   IF fault
                     THEN Crash
                     ELSE /\ P' = [P EXCEPT !.fwd = fwd]
                          /\ report' = [report EXCEPT !.forwardee = sec]
                          /\ wordReads' = wordReads \cup {obj}
                          /\ pc' = "pf_second"
       ELSE /\ pc' = "pf_second"
            /\ UNCHANGED <<P, report, wordReads>>
  /\ UNCHANGED <<fwdw, heapVars, argVars, L, pf, regionGets>>

PF_Second_a ==
  /\ pc = "pf_second"
  /\ IF pf.level >= _safe_oop_fwd
       THEN \E fwd \in get_raw_unchecked(obj), fault \in MayFault(obj) :
              IF fault
                THEN Crash
                ELSE /\ P' = [P EXCEPT !.fwd_b = fwd]
                     /\ wordReads' = wordReads \cup {obj}
                     /\ pc' = "pf_second2"
                     /\ UNCHANGED report
       ELSE /\ pc' = "pf_matrix"
            /\ UNCHANGED <<P, report, wordReads>>
  /\ UNCHANGED <<fwdw, heapVars, argVars, L, pf, regionGets>>

PF_Second_b ==
  /\ pc = "pf_second2"
  /\ \E fwd2 \in get_raw_unchecked(P.fwd_b), fault \in MayFault(P.fwd_b) :
       IF fault
         THEN Crash
         ELSE /\ P' = [P EXCEPT !.fwd2 = fwd2]
              /\ report' = [report EXCEPT
                              !.second = ~unsafe_equals(P.fwd_b, fwd2)]
              /\ wordReads' = wordReads \cup {P.fwd_b}
              /\ pc' = "pf_matrix"
  /\ UNCHANGED <<fwdw, heapVars, argVars, L, pf, regionGets>>

PF_Matrix_a ==
  /\ pc = "pf_matrix"
  /\ IF matrix_shown(pf.level, pf.loc)
       THEN \E fwd_to \in get_raw_unchecked(obj), fault \in MayFault(obj) :
              IF fault
                THEN Crash
                ELSE /\ P' = [P EXCEPT !.fwd_to = fwd_to]
                     /\ report' = [report EXCEPT !.matrix = TRUE]
                     /\ wordReads' = wordReads \cup {obj}
                     /\ pc' = "pf_matrix2"
       ELSE /\ pc' = "pf_die"
            /\ UNCHANGED <<P, report, wordReads>>
  /\ UNCHANGED <<fwdw, heapVars, argVars, L, pf, regionGets>>

\* the region indices of fwd_to and fwd_from index the matrix unchecked
PF_Matrix_b ==
  /\ pc = "pf_matrix2"
  /\ \E fwd_from \in get_raw_unchecked(pf.loc),
        fault \in MayFault(pf.loc) \cup MayFault(P.fwd_to) :
       \E fault2 \in {fault} \cup MayFault(fwd_from) :
         IF fault2
           THEN Crash
           ELSE /\ P' = [P EXCEPT !.fwd_from = fwd_from]
                /\ report' = [report EXCEPT !.matrix_interior =
                                interior_loc_in_heap(interior_loc)]
                /\ wordReads' = wordReads \cup {pf.loc}
                /\ pc' = "pf_die"
  /\ UNCHANGED <<fwdw, heapVars, argVars, L, pf, regionGets>>

\* report_vm_error: the fatal error path; it does not return
report_vm_error ==
  /\ pc = "pf_die"
  /\ pc' = "died"
  /\ UNCHANGED <<fwdw, heapVars, argVars, L, pf, P, report, wordReads, regionGets>>

\* ------------------------------------------------------------------------
\* The checks
\* ------------------------------------------------------------------------
CorrectKinds == {"correct", "in_correct_region", "forwarded", "not_forwarded",
                 "marked_complete", "marked_next", "not_in_cset"}
Kinds == CorrectKinds \cup {"in_heap", "not_in_cset_loc", "print_failure"}

Pass == [fail |-> FALSE, level |-> Unset, label |-> ""]
Fail(level, label) == [fail |-> TRUE, level |-> level, label |-> label]

\* mutant: only assert_correct itself runs the composite check
first_pc_own_first(k) ==
  CASE k = "correct" -> "ac_obj"
    [] k = "print_failure" -> "pf_head"
    [] OTHER -> "own"

\* Every check but assert_in_heap and assert_not_in_cset_loc calls
\* assert_correct as its first statement.
first_pc(k) ==
  CASE k \in CorrectKinds -> "ac_obj"
    [] k = "print_failure" -> "pf_head"
    [] OTHER -> "own"

Call ==
  /\ pc = "start"
  /\ pc' = first_pc(kind)
  /\ UNCHANGED <<fwdw, heapVars, argVars, L, pf, P, report, wordReads, regionGets>>

assert_in_heap ==
  /\ pc = "own" /\ kind = "in_heap"
  /\ IF ~is_in(obj)
       THEN print_failure(_safe_unknown, NULL, "Shenandoah assert_in_heap failed",
                          "oop must point to a heap address")
       ELSE pc' = "returned" /\ UNCHANGED pf
  /\ UNCHANGED <<fwdw, heapVars, argVars, L, P, report, wordReads, regionGets>>

\* assert_correct, step 1: obj in heap
assert_correct_obj ==
  /\ pc = "ac_obj"
  /\ IF ~is_in(obj)
       THEN print_failure(_safe_unknown, NULL, "Shenandoah assert_correct failed",
                          "oop must point to a heap address")
       ELSE pc' = "ac_fwd" /\ UNCHANGED pf
  /\ UNCHANGED <<fwdw, heapVars, argVars, L, P, report, wordReads, regionGets>>

\* mutant: the region test is made before the Full GC test
correct_forwardee_region_first(o, fwd) ==
  IF ~is_in(fwd)
    THEN Fail(_safe_oop, "Forwardee must point to a heap address")
  ELSE IF ~unsafe_equals(o, fwd)
          /\ heap_region_index_containing(fwd) = heap_region_index_containing(o)
    THEN Fail(_safe_all, "Forwardee should be self, or another region")
  ELSE IF ~unsafe_equals(o, fwd) /\ full_gc_move
    THEN Fail(_safe_all,
              "Non-trivial forwarding pointer during Full GC moves, probable bug.")
  ELSE Pass

\* assert_correct, the three tests on the forwardee just read
correct_forwardee(o, fwd) ==
  IF ~is_in(fwd)
    THEN Fail(_safe_oop, "Forwardee must point to a heap address")
  ELSE IF ~unsafe_equals(o, fwd) /\ full_gc_move
    THEN Fail(_safe_all,
              "Non-trivial forwarding pointer during Full GC moves, probable bug.")
  ELSE IF ~unsafe_equals(o, fwd)
          /\ heap_region_index_containing(fwd) = heap_region_index_containing(o)
    THEN Fail(_safe_all, "Forwardee should be self, or another region")
  ELSE Pass

assert_correct_forwardee ==
  /\ pc = "ac_fwd"
  /\ \E fwd \in get_raw_unchecked(obj), fault \in MayFault(obj) :
       IF fault
         THEN pc' = "crashed" /\ UNCHANGED <<L, pf, wordReads>>
         ELSE /\ L' = [L EXCEPT !.fwd = fwd]
              /\ wordReads' = wordReads \cup {obj}
              /\ LET v == correct_forwardee(obj, fwd)
                 IN IF v.fail
                      THEN print_failure(v.level, NULL,
                                         "Shenandoah assert_correct failed", v.label)
                      ELSE pc' = "ac_multi" /\ UNCHANGED pf
  /\ UNCHANGED <<fwdw, heapVars, argVars, P, report, regionGets>>

\* mutant: the second hop is not compared
correct_multi_unchecked(fwd, fwd2) == Pass

\* assert_correct, step 3: multiple forwardings
correct_multi(fwd, fwd2) ==
  IF ~unsafe_equals(fwd, fwd2) THEN Fail(_safe_all, "Multiple forwardings") ELSE Pass

after_correct(k) == IF k = "correct" THEN "returned" ELSE "own"

assert_correct_multi ==
  /\ pc = "ac_multi"
  /\ IF ~unsafe_equals(obj, L.fwd)
       THEN \E fwd2 \in get_raw_unchecked(L.fwd), fault \in MayFault(L.fwd) :
              IF fault
                THEN pc' = "crashed" /\ UNCHANGED <<L, pf, wordReads>>
                ELSE /\ L' = [L EXCEPT !.fwd2 = fwd2]
                     /\ wordReads' = wordReads \cup {L.fwd}
                     /\ LET v == correct_multi(L.fwd, fwd2)
                        IN IF v.fail
                             THEN print_failure(v.level, NULL,
                                    "Shenandoah assert_correct failed", v.label)
                             ELSE pc' = after_correct(kind) /\ UNCHANGED pf
       ELSE /\ pc' = after_correct(kind)
            /\ UNCHANGED <<L, pf, wordReads>>
  /\ UNCHANGED <<fwdw, heapVars, argVars, P, report, regionGets>>

\* obj->size(): read through the object's klass
obj_size(o) == IF is_in(o) THEN {objWords[o]} ELSE 1..MaxObjWords

\* assert_in_correct_region up to the loop
assert_in_correct_region ==
  /\ pc = "own" /\ kind = "in_correct_region"
  /\ LET ridx == heap_region_index_containing(obj)
     IN \E r \in regions_get(ridx), size \in obj_size(obj),
           fault \in GetMayFault(ridx) \cup MayFault(obj) :
          IF fault
            THEN pc' = "crashed" /\ UNCHANGED <<L, pf>>
            ELSE IF ~is_active(r)
              THEN /\ print_failure(_safe_unknown, NULL,
                                    "Shenandoah assert_in_correct_region failed",
                                    "Object must reside in active region")
                   /\ UNCHANGED L
              ELSE LET alloc_size == size + BrooksWordSize
                   IN IF alloc_size > humongous_threshold_words
                        THEN /\ L' = [L EXCEPT
                                        !.idx = ridx,
                                        !.num_regions =
                                           required_regions(alloc_size * HeapWordSize),
                                        !.i = ridx]
                             /\ pc' = "icr_loop"
                             /\ UNCHANGED pf
                        ELSE pc' = "returned" /\ UNCHANGED <<L, pf>>
  /\ UNCHANGED <<fwdw, heapVars, argVars, P, report, wordReads, regionGets>>

\* mutant: continuation regions are not tested
chain_check_start_only(i, idx, chain_reg) ==
  IF i = idx /\ ~is_humongous_start(chain_reg)
    THEN Fail(_safe_unknown, "Object must reside in humongous start")
  ELSE Pass

\* the two tests of the loop body on region i of the chain
chain_check(i, idx, chain_reg) ==
  IF i = idx /\ ~is_humongous_start(chain_reg)
    THEN Fail(_safe_unknown, "Object must reside in humongous start")
  ELSE IF i # idx /\ ~is_humongous_continuation(chain_reg)
    THEN Fail(_safe_oop, "Humongous continuation should be of proper size")
  ELSE Pass

\* mutant: the loop index does not advance
next_index_stuck(i) == i

\* i++
next_index(i) == i + 1

\* one evaluation of the loop condition, and of the body when it holds
in_correct_region_loop ==
  /\ pc = "icr_loop"
  /\ IF L.i < L.idx + L.num_regions
       THEN \E chain_reg \in regions_get(L.i), fault \in GetMayFault(L.i) :
              /\ regionGets' = regionGets \cup {L.i}
              /\ IF fault
                   THEN pc' = "crashed" /\ UNCHANGED <<L, pf>>
                   ELSE LET v == chain_check(L.i, L.idx, chain_reg)
                        IN IF v.fail
                             THEN /\ print_failure(v.level, NULL,
                                      "Shenandoah assert_in_correct_region failed",
                                      v.label)
                                  /\ UNCHANGED L
                             ELSE /\ L' = [L EXCEPT !.i = next_index(L.i)]
                                  /\ UNCHANGED <<pc, pf>>
       ELSE /\ pc' = "returned"
            /\ UNCHANGED <<L, pf, regionGets>>
  /\ UNCHANGED <<fwdw, heapVars, argVars, P, report, wordReads>>

assert_forwarded ==
  /\ pc = "own" /\ kind = "forwarded"
  /\ \E fwd \in get_raw_unchecked(obj), fault \in MayFault(obj) :
       IF fault
         THEN pc' = "crashed" /\ UNCHANGED <<L, pf, wordReads>>
         ELSE /\ L' = [L EXCEPT !.own_fwd = fwd]
              /\ wordReads' = wordReads \cup {obj}
              /\ IF unsafe_equals(obj, fwd)
                   THEN print_failure(_safe_all, NULL,
                                      "Shenandoah assert_forwarded failed",
                                      "Object should be forwarded")
                   ELSE pc' = "returned" /\ UNCHANGED pf
  /\ UNCHANGED <<fwdw, heapVars, argVars, P, report, regionGets>>

assert_not_forwarded ==
  /\ pc = "own" /\ kind = "not_forwarded"
  /\ \E fwd \in get_raw_unchecked(obj), fault \in MayFault(obj) :
       IF fault
         THEN pc' = "crashed" /\ UNCHANGED <<L, pf, wordReads>>
         ELSE /\ L' = [L EXCEPT !.own_fwd = fwd]
              /\ wordReads' = wordReads \cup {obj}
              /\ IF ~unsafe_equals(obj, fwd)
                   THEN print_failure(_safe_all, NULL,
                                      "Shenandoah assert_not_forwarded failed",
                                      "Object should not be forwarded")
                   ELSE pc' = "returned" /\ UNCHANGED pf
  /\ UNCHANGED <<fwdw, heapVars, argVars, P, report, regionGets>>

is_marked_complete(o) == o \in marked_complete
is_marked_next(o) == o \in marked_next

assert_marked_complete ==
  /\ pc = "own" /\ kind = "marked_complete"
  /\ IF ~is_marked_complete(obj)
       THEN print_failure(_safe_all, NULL, "Shenandoah assert_marked_complete failed",
                          "Object should be marked (complete)")
       ELSE pc' = "returned" /\ UNCHANGED pf
  /\ UNCHANGED <<fwdw, heapVars, argVars, L, P, report, wordReads, regionGets>>

assert_marked_next ==
  /\ pc = "own" /\ kind = "marked_next"
  /\ IF ~is_marked_next(obj)
       THEN print_failure(_safe_all, NULL, "Shenandoah assert_marked_next failed",
                          "Object should be marked (next)")
       ELSE pc' = "returned" /\ UNCHANGED pf
  /\ UNCHANGED <<fwdw, heapVars, argVars, L, P, report, wordReads, regionGets>>

assert_not_in_cset ==
  /\ pc = "own" /\ kind = "not_in_cset"
  /\ IF in_collection_set(obj)
       THEN print_failure(_safe_all, NULL, "Shenandoah assert_not_in_cset failed",
                          "Object should not be in collection set")
       ELSE pc' = "returned" /\ UNCHANGED pf
  /\ UNCHANGED <<fwdw, heapVars, argVars, L, P, report, wordReads, regionGets>>

\* obj is NULL in this entry point's report
assert_not_in_cset_loc ==
  /\ pc = "own" /\ kind = "not_in_cset_loc"
  /\ IF in_collection_set(interior_loc)
       THEN print_failure(_safe_unknown, NULL,
                          "Shenandoah assert_not_in_cset_loc failed",
                          "Interior location should not be in collection set")
       ELSE pc' = "returned" /\ UNCHANGED pf
  /\ UNCHANGED <<fwdw, heapVars, argVars, L, P, report, wordReads, regionGets>>

\* ------------------------------------------------------------------------
\* Heap snapshots and invocations
\* ------------------------------------------------------------------------
\* a forwarding chain RootAddr -> v1 -> v2 -> v3, every other word pointing
\* to itself
Chain(v1, v2, v3) ==
  [a \in HeapAddr |-> IF a = RootAddr THEN v1
                      ELSE IF a = v1 THEN v2
                      ELSE IF a = v2 THEN v3
                      ELSE a]

AllSelf == [a \in HeapAddr |-> a]

DefaultRegions ==
  [r \in Regions |-> IF r = NumRegions - 1 THEN "empty" ELSE "regular"]

\* the parts of a snapshot that a family does not vary
DefaultHeap ==
  /\ marked_complete = {a \in HeapAddr : a % 2 = 0}
  /\ marked_next = {a \in HeapAddr : a % 2 = 1}
  /\ cset = {0}

FreshFrames ==
  /\ pc = "start"
  /\ L = NoLocals
  /\ P = NoPLocals
  /\ report = EmptyReport
  /\ wordReads = {}
  /\ regionGets = {}
  /\ mutations = 0

\* any check on any address, against a corrupt forwarding chain
InitForwarding(V1, V2, V3) ==
  /\ \E v1 \in V1, v2 \in V2 : \E v3 \in V3 \cup {v2} : fwdw = Chain(v1, v2, v3)
  /\ full_gc_move \in BOOLEAN
  /\ regState = DefaultRegions
  /\ objWords = [a \in HeapAddr |-> 1]
  /\ DefaultHeap
  /\ UseShenandoahMatrix = FALSE
  /\ kind \in Kinds \ {"print_failure"}
  /\ obj \in (IF kind = "not_in_cset_loc" THEN {NULL} ELSE Addr)
  /\ interior_loc \in {NULL, RootAddr}
  /\ pf = NoFrame
  /\ FreshFrames

\* assert_in_correct_region on any address, against any region table and
\* object size
InitRegions(Objs) ==
  /\ fwdw = AllSelf
  /\ full_gc_move = FALSE
  /\ regState \in [Regions -> RegionStates]
  /\ \E s \in 1..MaxObjWords : objWords = [a \in HeapAddr |-> s]
  /\ DefaultHeap
  /\ UseShenandoahMatrix = FALSE
  /\ kind = "in_correct_region"
  /\ obj \in Objs
  /\ interior_loc = NULL
  /\ pf = NoFrame
  /\ FreshFrames

\* print_failure called by a checker outside this file (the heap verifier),
\* with a level that matches what the caller has validated
InitReport(V1, V2) ==
  /\ \E v1 \in V1, v2 \in V2 : fwdw = Chain(v1, v2, v2)
  /\ full_gc_move = FALSE
  /\ regState = DefaultRegions
  /\ objWords = [a \in HeapAddr |-> 1]
  /\ DefaultHeap
  /\ UseShenandoahMatrix \in BOOLEAN
  /\ kind = "print_failure"
  /\ obj \in Addr
  /\ interior_loc \in {NULL, RootAddr, OutsideAddr}
  /\ \E level \in SafeLevels, loc \in {NULL, RootAddr, OutsideAddr} :
       /\ level >= _safe_oop => is_in(obj)
       /\ level >= _safe_oop_fwd => is_in(obj) /\ is_in(fwdw[obj])
       /\ pf = [level |-> level, loc |-> loc, phase |-> "direct", label |-> "direct"]
  /\ FreshFrames

Init ==
  \/ InitForwarding(Addr, Addr, {RootAddr})
  \/ InitRegions(Addr)
  \/ InitReport(Addr, Addr)

Next ==
  \/ Call
  \/ assert_in_heap
  \/ assert_correct_obj
  \/ assert_correct_forwardee
  \/ assert_correct_multi
  \/ assert_in_correct_region
  \/ in_correct_region_loop
  \/ assert_forwarded
  \/ assert_not_forwarded
  \/ assert_marked_complete
  \/ assert_marked_next
  \/ assert_not_in_cset
  \/ assert_not_in_cset_loc
  \/ PF_Head
  \/ PF_Forwardee
  \/ PF_Second_a
  \/ PF_Second_b
  \/ PF_Matrix_a
  \/ PF_Matrix_b
  \/ report_vm_error

Spec == Init /\ [][Next]_vars

\* ------------------------------------------------------------------------
\* The collector: while a check runs it may rewrite the forwarding word of
\* the object under check
\* ------------------------------------------------------------------------
Running == pc \notin {"start", "returned", "died", "crashed"}

Mutate ==
  /\ Running
  /\ is_in(obj)
  /\ mutations < MaxMutations
  /\ mutations' = mutations + 1
  /\ \E v \in Addr : v # fwdw[obj] /\ fwdw' = [fwdw EXCEPT ![obj] = v]
  /\ UNCHANGED <<heapVars, kind, obj, interior_loc, pc, L, pf, P, report,
                 wordReads, regionGets>>

InitConc ==
  \/ InitForwarding({RootAddr, LastAddr}, {LastAddr}, {})
  \/ InitRegions({RootAddr})
  \/ InitReport({RootAddr, LastAddr}, {LastAddr})

NextConc == Next \/ Mutate

SpecConc == InitConc /\ [][NextConc]_vars

\* cyclic and broken chains, every region table, every report
InitLive ==
  \/ InitForwarding(Addr, {RootAddr, LastAddr}, {RootAddr})
  \/ InitRegions(Addr)
  \/ InitReport(Addr, {LastAddr})

\* the calling thread keeps running until the check returns or the process dies
SpecLive == InitLive /\ [][Next]_vars /\ WF_vars(Next)

\* ------------------------------------------------------------------------
\* Properties
\* ------------------------------------------------------------------------
Done == pc \in {"returned", "died", "crashed"}

\* the region an address lies in, by the layout of the heap
RegionOf(a) ==
  CHOOSE r \in Regions : r * RegionSizeWords < a /\ a <= (r + 1) * RegionSizeWords

\* the five conditions of check_correct, on the snapshot
NotInHeap(o) == o \notin HeapAddr
FwdNotInHeap(o) == o \in HeapAddr /\ fwdw[o] \notin HeapAddr
Forwarded(o) == o \in HeapAddr /\ fwdw[o] # o
FwdDuringFullGC(o) == Forwarded(o) /\ full_gc_move
FwdSameRegion(o) ==
  Forwarded(o) /\ fwdw[o] \in HeapAddr /\ RegionOf(fwdw[o]) = RegionOf(o)
MultipleFwd(o) ==
  Forwarded(o) /\ fwdw[o] \in HeapAddr /\ fwdw[fwdw[o]] # fwdw[o]

\* label and tier of the lowest-numbered violated condition
FirstViolated(o) ==
  IF NotInHeap(o) THEN <<"oop must point to a heap address", _safe_unknown>>
  ELSE IF FwdNotInHeap(o)
    THEN <<"Forwardee must point to a heap address", _safe_oop>>
  ELSE IF FwdDuringFullGC(o)
    THEN <<"Non-trivial forwarding pointer during Full GC moves, probable bug.",
           _safe_all>>
  ELSE IF FwdSameRegion(o)
    THEN <<"Forwardee should be self, or another region", _safe_all>>
  ELSE IF MultipleFwd(o) THEN <<"Multiple forwardings", _safe_all>>
  ELSE <<"", Unset>>

CorrectOK(o) ==
  /\ o \in HeapAddr
  /\ fwdw[o] \in HeapAddr
  /\ \/ fwdw[o] = o
     \/ /\ ~full_gc_move
        /\ RegionOf(fwdw[o]) # RegionOf(o)
        /\ fwdw[fwdw[o]] = fwdw[o]

\* C1: assert_correct reports the lowest-numbered violated condition of its
\* five, with that condition's label and tier, and nothing else: the frame
\* handed to print_failure and the report that reaches the fatal error path
\* both carry it.
C1_FirstViolatedReported ==
  kind = "correct" =>
    /\ pf # NoFrame =>
         /\ pf.phase = "Shenandoah assert_correct failed"
         /\ <<pf.label, pf.level>> = FirstViolated(obj)
    /\ pc = "died" =>
         /\ report.phase = "Shenandoah assert_correct failed"
         /\ <<report.label, report.level>> = FirstViolated(obj)

\* a snapshot violating conditions 3, 4 and 5 at once is reported as 3
C1_Witness ==
  /\ kind = "correct" /\ pc = "died"
  /\ FwdDuringFullGC(obj) /\ FwdSameRegion(obj) /\ MultipleFwd(obj)
  /\ report.label
       = "Non-trivial forwarding pointer during Full GC moves, probable bug."

\* C2: assert_correct returns, with no report, exactly when the object is in
\* the heap, its forwardee is in the heap, and it is self-forwarded or (no
\* Full GC move, forwardee in another region, forwardee self-forwarded).
C2_ReturnsIffCorrect ==
  (kind = "correct" /\ Done) =>
    /\ pc = "returned" <=> CorrectOK(obj)
    /\ pc = "returned" => report = EmptyReport /\ pf = NoFrame

\* a self-forwarded object passes during a Full GC move
C2_Witness ==
  /\ kind = "correct" /\ pc = "returned"
  /\ full_gc_move /\ fwdw[obj] = obj

\* C3: a stronger check on an object that violates check_correct ends in
\* check_correct's report; its own condition is never reached.
C3_CorrectRunsFirst ==
  (kind \in CorrectKinds \ {"correct"} /\ ~CorrectOK(obj)) =>
    /\ pc \notin {"own", "icr_loop", "returned", "crashed"}
    /\ L.own_fwd = Unset /\ L.idx = Unset
    /\ pf # NoFrame =>
         /\ pf.phase = "Shenandoah assert_correct failed"
         /\ <<pf.label, pf.level>> = FirstViolated(obj)
    /\ pc = "died" =>
         /\ report.phase = "Shenandoah assert_correct failed"
         /\ <<report.label, report.level>> = FirstViolated(obj)

\* an unmarked object with a forwardee in its own region: assert_marked_complete
\* dies in assert_correct's report
C3_Witness ==
  /\ kind = "marked_complete" /\ pc = "died"
  /\ FwdSameRegion(obj) /\ obj \notin marked_complete
  /\ report.label = "Forwardee should be self, or another region"

C5_DetailByInteriorLocation ==
  (pc = "died" /\ interior_loc # NULL /\ kind # "print_failure") =>
    IF is_in(interior_loc)
      THEN report.referenced = "full"
      ELSE report.referenced \in {"inside_heap", "outside_heap"}

\* C5, amended: with an interior location known, the Referenced-from section
\* holds an object-detail block of the referring object loc when loc is not
\* NULL and lies in the heap; otherwise it says whether the interior location
\* is inside or outside the heap.  With no interior location it says so.
C5_DetailByReferringLocation ==
  pc = "died" =>
    report.referenced =
      (IF interior_loc = NULL THEN "no_interior"
       ELSE IF pf.loc # NULL /\ pf.loc \in HeapAddr THEN "full"
       ELSE IF interior_loc \in HeapAddr THEN "inside_heap"
       ELSE "outside_heap")

\* an interior location outside the heap, a referring object inside
C5_Witness ==
  /\ pc = "died" /\ interior_loc = OutsideAddr /\ pf.loc \in HeapAddr
  /\ report.referenced = "full"

\* C6 as stated: a report with the Matrix section has the interior location
\* in the heap, the matrix enabled and level AllSafe.
C6_MatrixByInteriorLocation ==
  report.matrix =>
    /\ interior_loc # NULL /\ interior_loc \in HeapAddr
    /\ UseShenandoahMatrix
    /\ report.level = _safe_all

\* C6, amended: a report with the Matrix section has the referring location
\* loc not NULL and in the heap, the matrix enabled and level AllSafe; the
\* two interior pairs are added exactly when the interior location is in the
\* heap as well.
C6_MatrixByReferringLocation ==
  /\ report.matrix =>
       /\ pf.loc # NULL /\ pf.loc \in HeapAddr
       /\ UseShenandoahMatrix
       /\ report.level = _safe_all
  /\ report.matrix_interior =>
       report.matrix /\ interior_loc # NULL /\ interior_loc \in HeapAddr
  /\ (pc = "died" /\ report.matrix /\ interior_loc \in HeapAddr
        /\ interior_loc # NULL) => report.matrix_interior

\* the Matrix section in a report with no interior location in the heap
C6_Witness ==
  /\ pc = "died" /\ report.matrix
  /\ ~(interior_loc # NULL /\ interior_loc \in HeapAddr)

\* the span of a humongous object, by the claim's words: k regions from the
\* object's own, k the allocation size rounded up to whole regions
AllocWords(o) == objWords[o] + 1
IsHumongous(o) == AllocWords(o) > RegionSizeWords
SpanLen(o) ==
  CHOOSE k \in 1..(MaxObjWords + 1) :
    k * RegionSizeWords >= AllocWords(o) /\ (k - 1) * RegionSizeWords < AllocWords(o)
StartFlagged(o) == regState[RegionOf(o)] = "humongous_start"
ContFlagged(o) ==
  \A j \in (RegionOf(o) + 1)..(RegionOf(o) + SpanLen(o) - 1) :
    regState[j] = "humongous_cont"

\* C7: for an object that passes check_correct: in an inactive region the
\* check dies with "Object must reside in active region" before any region
\* of the span is looked up; in an active region, humongous, with a span
\* [i, i+k) of regions of the table, it returns iff region i is flagged
\* start and regions i+1..i+k-1 continuation, dies with "Object must reside
\* in humongous start" when the start flag is missing, and with "Humongous
\* continuation should be of proper size" when the start flag is there and a
\* continuation flag is missing.
C7_HumongousSpan ==
  (kind = "in_correct_region" /\ CorrectOK(obj) /\ Done) =>
    IF regState[RegionOf(obj)] = "empty"
      THEN /\ pc = "died"
           /\ report.label = "Object must reside in active region"
           /\ regionGets = {}
      ELSE (IsHumongous(obj) /\ RegionOf(obj) + SpanLen(obj) <= NumRegions) =>
             /\ pc = "returned" <=> (StartFlagged(obj) /\ ContFlagged(obj))
             /\ ~StartFlagged(obj) =>
                  /\ pc = "died"
                  /\ report.label = "Object must reside in humongous start"
             /\ (StartFlagged(obj) /\ ~ContFlagged(obj)) =>
                  /\ pc = "died"
                  /\ report.label
                       = "Humongous continuation should be of proper size"

\* Scenario D: a span of 3 regions whose third region lacks the flag
C7_Witness ==
  /\ kind = "in_correct_region" /\ pc = "died" /\ obj \in HeapAddr
  /\ SpanLen(obj) = 3 /\ RegionOf(obj) + 3 <= NumRegions
  /\ regState[RegionOf(obj)] = "humongous_start"
  /\ regState[RegionOf(obj) + 1] = "humongous_cont"
  /\ regState[RegionOf(obj) + 2] # "humongous_cont"
  /\ report.label = "Humongous continuation should be of proper size"

\* the addresses within two hops of the checked object whose forwarding
\* word may be read: the object and its forwardee (and the referring object)
ChainHeads ==
  {obj, pf.loc} \cup (IF obj \in HeapAddr THEN {fwdw[obj]} ELSE {})

C9_ForwardeeIsValidated ==
  kind \in CorrectKinds =>
    /\ report.forwardee = "full" => P.fwd = L.fwd
    /\ P.fwd2 # Unset => P.fwd_b = L.fwd
    /\ L.own_fwd # Unset => L.own_fwd = L.fwd

\* C10: in assert_in_correct_region every index passed to regions()->get()
\* is an index of the region table.
C10_SpanWalkInTable ==
  kind = "in_correct_region" => \A i \in regionGets : i < NumRegions
====
